---- MODULE Spec2Model ----
(***************************************************************************)
(* The match-ingestion pipeline of the League of Legends win predictor:    *)
(* the analysis run of main.py (account lookup, match listing, per-match   *)
(* fetch and feature extraction, training) over api_utils.py,              *)
(* data_processing.py and model.py.                                        *)
(*                                                                         *)
(* Python dicts are functions from key strings to values; a key that is    *)
(* absent is outside DOMAIN.  d[k] on an absent key is a KeyError, which   *)
(* the model makes explicit; d.get(k, default) is Get.  Floats that come   *)
(* from a division are kept as exact fractions <<numerator, denominator>>. *)
(*                                                                         *)
(* Spec is one analysis run.  SpecRow is the extraction of one record,     *)
(* SpecApi the api_utils functions called repeatedly in one process,       *)
(* SpecRepeat processMatches called again on the same list, SpecTrain      *)
(* trainModel on a dataset, SpecPredict predictByMostPlayed on one and     *)
(* SpecWired trainModel followed by the predictByMostPlayed call of the    *)
(* last tab, on the same dataset.                                          *)
(***************************************************************************)
EXTENDS Integers, Sequences, FiniteSets, TLC

VARIABLES
    pc,            \* position of the run in main.py
    account,       \* main.py: account = getPUUID(...)
    puuid,         \* main.py: puuid = account.get('puuid')
    matches,       \* main.py: matches = getMatches(...)
    i,             \* processMatches: number of completed loop iterations
    match_id,      \* processMatches: loop variable
    match,         \* processMatches: match = getMatchDetails(match_id)
    response,      \* getMatchDetails: outcome of the last HTTP exchange
    data,          \* processMatches: list of extracted rows
    df,            \* main.py: df = processMatches(...)
    progress_bar,  \* every value sent to st.progress, in order
    errors,        \* every st.error message, in order
    slept,         \* seconds spent in time.sleep so far
    requests,      \* match-detail requests issued so far
    calls,         \* log of the api_utils calls: function, arguments, outcome, value returned
    status_text,   \* the text status_text shows
    exc,           \* the unhandled exception that ended the run, or NoException
    rng,           \* the permutation RandomState(42) deals for the rows of df
    df_encoded,    \* trainModel: df_encoded = pd.get_dummies(...)
    x_train,       \* trainModel: training part of x; predictByMostPlayed: x
    x_test,        \* trainModel: test part of x
    y_train,       \* trainModel: training part of y
    y_test,        \* trainModel: test part of y
    model,         \* trainModel: the fitted RandomForestClassifier
    predictions,   \* predictByMostPlayed: list of (champ, role_name, prob)
    entries,       \* every synthetic row handed to predict_proba, in order
    cache,         \* st.cache_data: stored results, by function and arguments
    prev,          \* what the previous execution of the same code produced
    runs           \* executions completed before the current one

\* model.py
mlvars == <<rng, df_encoded, x_train, x_test, y_train, y_test, model, predictions, entries>>

\* the Streamlit process around the script
sessionvars == <<cache, prev, runs>>

vars == <<pc, account, puuid, matches, i, match_id, match, response, data, df,
          progress_bar, errors, slept, requests, calls, status_text, exc,
          mlvars, sessionvars>>

\* ------------------------------------------------------------------ bounds

\* Longest match-id list the listing returns.
MaxMatches == 2

\* Largest kills / deaths / assists value of the row-level inputs.
MaxStat == 5

\* Most rows of the datasets predictByMostPlayed is given.
MaxRows == 4

\* Most rows of the datasets trainModel is given.
MaxTrainRows == 4

\* How often the same code is executed again in one process.
MaxReruns == 1

\* Most calls of the api_utils functions in one process.
MaxCalls == 3

\* --------------------------------------------------------- python helpers

None == "None"

EmptyDict == <<>>

Has(d, k) == k \in DOMAIN d

\* dict.get(k, default)
Get(d, k, default) == IF k \in DOMAIN d THEN d[k] ELSE default

\* the dict d with key k deleted
Without(d, k) == [f \in DOMAIN d \ {k} |-> d[f]]

\* the elements of a list
Range(s) == {s[n] : n \in 1 .. Len(s)}

\* Python truth value of a string or None
Truthy(s) == s /= None /\ s /= ""

\* int(b) for a bool b
IntOfBool(b) == IF b THEN 1 ELSE 0

\* x or 1 for a number x
OrOne(x) == IF x = 0 THEN 1 ELSE x

Max(a, b) == IF a >= b THEN a ELSE b

\* the least number of a non-empty set
Min(S) == CHOOSE x \in S : \A y \in S : x <= y

\* a / b as an exact fraction; b = 0 is Python's ZeroDivisionError
Frac(a, b) == <<a, b>>

One == Frac(1, 1)

Zero == Frac(0, 1)

RECURSIVE Gcd(_, _)
Gcd(a, b) == IF b = 0 THEN a ELSE Gcd(b, a % b)

\* the fraction p in lowest terms
Reduced(p) == IF p[1] = 0 THEN <<0, 1>> ELSE <<p[1] \div Gcd(p[1], p[2]), p[2] \div Gcd(p[1], p[2])>>

\* p + q and p / n on exact fractions, in lowest terms
FracAdd(p, q) == Reduced(<<p[1] * q[2] + q[1] * p[2], p[2] * q[2]>>)

FracDiv(p, n) == Reduced(<<p[1], p[2] * n>>)

\* one call progress_bar.progress(value) made by the function `at`
Report(at, value) == [at |-> at, value |-> value]

FracEq(p, q) == p[1] * q[2] = q[1] * p[2]

FracLeq(p, q) == p[1] * q[2] <= q[1] * p[2]

FracLess(p, q) == p[1] * q[2] < q[1] * p[2]

\* ------------------------------------------------------------ the upstream

Target == "puuid-target"

OtherPlayer == "puuid-other"

\* A participant record of the match-v5 API with every field the extractor reads.
Participant(id, champion, win, k, d, a, role, fb) ==
    [puuid |-> id, championName |-> champion, win |-> win,
     kills |-> k, deaths |-> d, assists |-> a, teamPosition |-> role,
     goldEarned |-> 9000, totalDamageDealtToChampions |-> 15000,
     totalMinionsKilled |-> 150, visionScore |-> 20, firstBloodKill |-> fb]

OptionalFields == {"goldEarned", "totalDamageDealtToChampions",
                   "totalMinionsKilled", "visionScore", "firstBloodKill"}

\* p without the fields the extractor reads with a default
WithoutOptional(p) == [f \in DOMAIN p \ OptionalFields |-> p[f]]

MatchA == Participant(Target, "Ahri", TRUE, 5, 1, 5, "MIDDLE", TRUE)
MatchB == Participant(Target, "Garen", FALSE, 0, 3, 0, "TOP", FALSE)
MatchC == WithoutOptional(Participant(Target, "Ahri", TRUE, 2, 0, 2, "TOP", FALSE))
Stranger == Participant(OtherPlayer, "Zed", FALSE, 1, 1, 1, "JUNGLE", FALSE)

MatchRecord(participants, seconds) ==
    [metadata |-> [dataVersion |-> "2"],
     info |-> [participants |-> participants, gameDuration |-> seconds]]

\* What the match-detail endpoint holds, by match id.
Server ==
    << MatchRecord(<<Stranger, MatchA>>, 1800),                      \* 1
       MatchRecord(<<MatchB, Stranger>>, 1530),                      \* 2
       MatchRecord(<<Stranger, MatchC>>, 2400),                      \* 3
       MatchRecord(<<Stranger>>, 1200),                              \* 4: player not in it
       MatchRecord(<<MatchA, MatchB>>, 1800),                        \* 5: player twice
       EmptyDict,                                                    \* 6: body without 'info'
       [info |-> [gameDuration |-> 1800]],                           \* 7: no 'participants'
       MatchRecord(<<Without(MatchA, "championName")>>, 1800),       \* 8
       MatchRecord(<<Without(Stranger, "puuid"), MatchA>>, 1800),    \* 9
       [info |-> [participants |-> <<MatchA>>]],                     \* 10: no 'gameDuration'
       MatchRecord(<<MatchA, Without(Stranger, "puuid")>>, 1800) >>  \* 11

MatchIds == 1 .. Len(Server)

\* Outcomes of one HTTP exchange with the match-detail endpoint.
Outcomes == {"ok", "http_error", "transport_error"}

\* Bodies the account endpoint answers with.
AccountResponses ==
    { [puuid |-> Target, gameName |-> "PFM Misto Quente", tagLine |-> "PQP"],
      [status |-> "404"],
      [message |-> "Forbidden"] }

RECURSIVE InjectiveSeqs(_, _)
\* the sequences of n distinct elements of S
InjectiveSeqs(S, n) ==
    IF n = 0 THEN {<<>>}
    ELSE UNION { { Append(s, x) : x \in S \ {s[j] : j \in 1 .. Len(s)} }
                 : s \in InjectiveSeqs(S, n - 1) }

\* Lists the match-list endpoint answers with.
Listings == UNION { InjectiveSeqs(MatchIds, n) : n \in 0 .. MaxMatches }

\* ------------------------------------------------------------ api_utils.py

\* the inputs of main.py as the page first shows them
PlayerName == "PFM Misto Quente"

TagLine == "PQP"

QuantMatches == 20

\* st.cache_data of a process that has called nothing: one store per function
NoCache == [getPUUID |-> <<>>, getMatches |-> <<>>]

NoException == [type |-> "None", at |-> "None"]

\* an exception of this type leaving the function `at`
Raised(type, at) == [type |-> type, at |-> at]

\* A call of a function under @st.cache_data with the arguments key: a stored
\* result is returned without running the function; otherwise the function runs
\* (one requests.get and response.json(), no handler, so a transport failure
\* leaves the call as an exception) and what it returns is stored.  No ttl and
\* no max_entries are given, so nothing is ever dropped from the store.
Cached(store, fn, key, answer, up) ==
    IF key \in DOMAIN store[fn]
    THEN [ret |-> store[fn][key], store |-> store, outcome |-> "cached",
          raised |-> NoException]
    ELSE IF ~up
    THEN [ret |-> EmptyDict, store |-> store, outcome |-> "transport_error",
          raised |-> Raised("ConnectionError", fn)]
    ELSE [ret |-> answer, store |-> [store EXCEPT ![fn] = (key :> answer) @@ @],
          outcome |-> "ok", raised |-> NoException]

\* getPUUID(player_name, tag_line) when the account endpoint would answer
\* `answer`, or would not be reached (~up)
getPUUID(store, player_name, tag_line, answer, up) ==
    Cached(store, "getPUUID", <<player_name, tag_line>>, answer, up)

\* getMatches(puuid, quant)
getMatches(store, id, quant, answer, up) ==
    Cached(store, "getMatches", <<id, quant>>, answer, up)

\* Seconds of the pause after a match-detail request.
SleepSeconds == 1

\* getMatchDetails as it would be if a reported failure were remembered: every call
\* after the first failure gives up without asking.
getMatchDetails_Sticky(id, outcome) ==
    IF \E e \in {errors[n] : n \in 1 .. Len(errors)} : e[1] = "match"
    THEN [ret |-> EmptyDict, slept |-> 0, errors |-> <<>>, attempts |-> 0]
    ELSE CASE outcome = "transport_error" ->
                  [ret |-> EmptyDict, slept |-> 0, errors |-> << <<"match", id>> >>,
                   attempts |-> 1]
           [] outcome = "http_error" ->
                  [ret |-> EmptyDict, slept |-> SleepSeconds,
                   errors |-> << <<"match", id>> >>, attempts |-> 1]
           [] OTHER ->
                  [ret |-> Server[id], slept |-> SleepSeconds, errors |-> <<>>,
                   attempts |-> 1]

\* getMatchDetails as it would be with one retry: a request that fails is sent
\* a second time before the failure is reported.
getMatchDetails_Retry(id, outcome) ==
    CASE outcome = "transport_error" ->
             [ret |-> EmptyDict, slept |-> 0, errors |-> << <<"match", id>> >>,
              attempts |-> 2]
      [] outcome = "http_error" ->
             [ret |-> EmptyDict, slept |-> 2 * SleepSeconds,
              errors |-> << <<"match", id>> >>, attempts |-> 2]
      [] OTHER ->
             [ret |-> Server[id], slept |-> SleepSeconds, errors |-> <<>>,
              attempts |-> 1]

\* getMatchDetails against an exchange that ends in `outcome`: the value returned,
\* the seconds slept, the messages sent to st.error and the number of requests
\* sent.  requests.get is called once; it raises on a transport failure, before
\* the sleep; raise_for_status raises after it.
getMatchDetails(id, outcome) ==
    CASE outcome = "transport_error" ->
             [ret |-> EmptyDict, slept |-> 0, errors |-> << <<"match", id>> >>,
              attempts |-> 1]
      [] outcome = "http_error" ->
             [ret |-> EmptyDict, slept |-> SleepSeconds,
              errors |-> << <<"match", id>> >>, attempts |-> 1]
      [] OTHER ->
             [ret |-> Server[id], slept |-> SleepSeconds, errors |-> <<>>,
              attempts |-> 1]

\* ------------------------------------------------------ data_processing.py

\* (kills + assists) / deaths: the division without its guard
Kda_NoGuard(player) == Frac(player["kills"] + player["assists"], player["deaths"])

\* (kills + assists) / (deaths or 1)
Kda(player) == Frac(player["kills"] + player["assists"], OrOne(player["deaths"]))

\* int(player.get('firstBloodKill', True)): the wrong default
FirstBlood_DefaultTrue(player) == IntOfBool(Get(player, "firstBloodKill", TRUE))

\* int(player.get('firstBloodKill', False))
FirstBlood(player) == IntOfBool(Get(player, "firstBloodKill", FALSE))

\* The keys the row is built from by subscript, in the order the dict display
\* evaluates them; 'gameDuration' is read from match['info'].
Subscripted == <<"championName", "win", "kills", "deaths", "assists",
                 "teamPosition", "gameDuration">>

RECURSIVE FirstMissingFrom(_, _, _)
FirstMissingFrom(player, info, n) ==
    IF n > Len(Subscripted) THEN None
    ELSE LET key == Subscripted[n]
             holder == IF key = "gameDuration" THEN info ELSE player
         IN  IF Has(holder, key) THEN FirstMissingFrom(player, info, n + 1) ELSE key

\* The key whose subscript raises KeyError while the row is built, or None.
FirstMissing(player, info) == FirstMissingFrom(player, info, 1)

\* The dict appended to data for the matching participant.
Row(player, info) ==
    [champion |-> player["championName"],
     win |-> player["win"],
     kills |-> player["kills"],
     deaths |-> player["deaths"],
     assists |-> player["assists"],
     kda |-> Kda(player),
     role |-> player["teamPosition"],
     duration |-> Frac(info["gameDuration"], 60),
     gold |-> Get(player, "goldEarned", 0),
     damage |-> Get(player, "totalDamageDealtToChampions", 0),
     farm |-> Get(player, "totalMinionsKilled", 0),
     vision |-> Get(player, "visionScore", 0),
     first_blood |-> FirstBlood(player)]

\* match.get('info', {}).get('participants', [])
ParticipantsOf(m) == Get(Get(m, "info", EmptyDict), "participants", <<>>)

RECURSIVE ScanFrom(_, _, _, _)
\* The inner loop from participant k on: the rows it appends and the key of the
\* KeyError it raises (None when it raises nothing).
ScanFrom(participants, k, m, target) ==
    IF k > Len(participants) THEN [rows |-> <<>>, raised |-> None]
    ELSE LET player == participants[k]
         IN  IF ~Has(player, "puuid") THEN [rows |-> <<>>, raised |-> "puuid"]
             ELSE IF player["puuid"] = target
                  THEN IF FirstMissing(player, m["info"]) /= None
                       THEN [rows |-> <<>>, raised |-> FirstMissing(player, m["info"])]
                       ELSE [rows |-> <<Row(player, m["info"])>>, raised |-> None]
                  ELSE ScanFrom(participants, k + 1, m, target)

RECURSIVE ScanAllFrom(_, _, _, _)
ScanAllFrom(participants, k, m, target) ==
    IF k > Len(participants) THEN [rows |-> <<>>, raised |-> None]
    ELSE LET player == participants[k]
             rest == ScanAllFrom(participants, k + 1, m, target)
         IN  IF ~Has(player, "puuid") THEN [rows |-> <<>>, raised |-> "puuid"]
             ELSE IF player["puuid"] = target
                  THEN IF FirstMissing(player, m["info"]) /= None
                       THEN [rows |-> <<>>, raised |-> FirstMissing(player, m["info"])]
                       ELSE [rows |-> <<Row(player, m["info"])>> \o rest.rows,
                             raised |-> rest.raised]
                  ELSE rest

\* The inner loop without its break: every matching participant gives a row.
Scan_NoBreak(m, target) == ScanAllFrom(ParticipantsOf(m), 1, m, target)

\* The inner loop over match['info']['participants']: a record without the
\* structure raises.
Scan_Subscript(m, target) ==
    IF ~Has(m, "info") THEN [rows |-> <<>>, raised |-> "info"]
    ELSE IF ~Has(m["info"], "participants") THEN [rows |-> <<>>, raised |-> "participants"]
    ELSE ScanFrom(m["info"]["participants"], 1, m, target)

\* The inner loop of processMatches over one fetched record.
Scan(m, target) == ScanFrom(ParticipantsOf(m), 1, m, target)

\* data.insert(0, row): the new row put in front
AppendRows_Front(rows, new) == new \o rows

\* data.append(row) for the rows the scan of one record gives
AppendRows(rows, new) == rows \o new

\* i / len(matches): the report made from the index before its increment
Fraction_BeforeIncrement(n, total) == Frac(n - 1, total)

\* (i + 1) / len(matches), with n completed iterations counting this one
Fraction(n, total) == Frac(n, total)

\* ------------------------------------------------------------------ model.py

\* The columns of pd.DataFrame(data): the keys of the row dicts, in the order
\* the dict display writes them; a frame built from no rows has no columns.
DataFrameColumns ==
    <<"champion", "win", "kills", "deaths", "assists", "kda", "role", "duration",
      "gold", "damage", "farm", "vision", "first_blood">>

Columns(rows) == IF Len(rows) = 0 THEN <<>> ELSE DataFrameColumns

\* columns=['champion', 'role']
Categorical == <<"champion", "role">>

\* The champion and role names of the model in the order Python sorts strings.
Lexicographic ==
    <<"", "Ahri", "BOTTOM", "Garen", "JUNGLE", "Lux", "MIDDLE", "TOP", "UTILITY", "Zed">>

Rank(v) == CHOOSE n \in 1 .. Len(Lexicographic) : Lexicographic[n] = v

RECURSIVE Sorted(_)
\* the values of the set S as a sorted list
Sorted(S) ==
    IF S = {} THEN <<>>
    ELSE LET least == CHOOSE v \in S : \A w \in S : Rank(v) <= Rank(w)
         IN  <<least>> \o Sorted(S \ {least})

\* the distinct values column c takes in the rows
Levels(rows, c) == {rows[n][c] : n \in 1 .. Len(rows)}

\* get_dummies(drop_first=True): the first level of the column gets no indicator
Dummies_DropFirst(rows, c) ==
    LET levels == Sorted(Levels(rows, c))
    IN  [n \in 1 .. Len(levels) - 1 |-> c \o "_" \o levels[n + 1]]

\* The indicator columns get_dummies makes of column c: one per distinct value,
\* named <c>_<value>, in the sorted order of the values.
Dummies(rows, c) ==
    LET levels == Sorted(Levels(rows, c))
    IN  [n \in 1 .. Len(levels) |-> c \o "_" \o levels[n]]

\* pd.get_dummies(df, columns=['champion', 'role']): the columns that are not
\* encoded keep their order, the indicators of each encoded column follow; the
\* index is the row positions of df.
get_dummies(rows) ==
    [columns |-> SelectSeq(Columns(rows), LAMBDA c : c \notin Range(Categorical))
                     \o Dummies(rows, Categorical[1]) \o Dummies(rows, Categorical[2]),
     index |-> [n \in 1 .. Len(rows) |-> n]]

\* The cell of encoded row n in column c.
Cell(rows, n, c) ==
    IF c \in Range(Columns(rows)) THEN rows[n][c]
    ELSE IF c = "champion_" \o rows[n]["champion"] \/ c = "role_" \o rows[n]["role"]
         THEN 1 ELSE 0

\* df_encoded.drop('win', axis=1)
DropWin(frame) ==
    [columns |-> SelectSeq(frame.columns, LAMBDA c : c /= "win"), index |-> frame.index]

\* test_size=0.5
NTest_Half(n) == (n + 1) \div 2

\* train_test_split(test_size=0.2): the test part is ceil(0.2 * n) rows
NTest(n) == (n + 4) \div 5

NTrain(n) == n - NTest(n)

\* The exception trainModel ends in on a dataset of these rows, or NoException:
\* get_dummies needs the 'champion' and 'role' columns, which a DataFrame built
\* from no rows lacks; train_test_split refuses an empty training part.
trainModel(rows) ==
    IF Len(rows) = 0 THEN Raised("KeyError", "trainModel")
    ELSE IF NTrain(Len(rows)) = 0 THEN Raised("ValueError", "trainModel")
    ELSE NoException

\* the orders in which n rows can be dealt
Perms(n) == {p \in [1 .. n -> 1 .. n] : \A a, b \in 1 .. n : a /= b => p[a] /= p[b]}

\* random_state=None: every call deals afresh
Dealt_Unseeded(seen, n) == Perms(n)

\* RandomState(42).permutation(n): one fixed order for each n.  Which order it
\* is is not known here, so the first call on n rows may deal any, and every
\* later call on n rows deals the one recorded in seen.
Dealt(seen, n) == IF n \in DOMAIN seen THEN {seen[n]} ELSE Perms(n)

\* df_encoded['win']
WinColumn(rows, frame) ==
    [index |-> frame.index, values |-> [n \in 1 .. Len(frame.index) |-> rows[frame.index[n]]["win"]]]

\* The split made before the encoding: the columns of the training part are
\* those get_dummies gives for the training rows alone.
train_test_split_ThenEncode(x, y, perm) ==
    LET n == Len(x.index)
        test == [k \in 1 .. NTest(n) |-> perm[k]]
        train == [k \in 1 .. NTrain(n) |-> perm[NTest(n) + k]]
        Take(series, at) == [k \in 1 .. Len(at) |-> series[at[k]]]
        trained == [k \in 1 .. Len(train) |-> df[x.index[train[k]]]]
    IN  [x_train |-> [columns |-> DropWin(get_dummies(trained)).columns,
                      index |-> Take(x.index, train)],
         x_test |-> [columns |-> x.columns, index |-> Take(x.index, test)],
         y_train |-> [index |-> Take(y.index, train), values |-> Take(y.values, train)],
         y_test |-> [index |-> Take(y.index, test), values |-> Take(y.values, test)]]

\* train_test_split(x, y, test_size=0.2, random_state=42): the first n_test
\* positions of the dealt order are the test part, the next n_train the training
\* part.
train_test_split(x, y, perm) ==
    LET n == Len(x.index)
        test == [k \in 1 .. NTest(n) |-> perm[k]]
        train == [k \in 1 .. NTrain(n) |-> perm[NTest(n) + k]]
        Take(series, at) == [k \in 1 .. Len(at) |-> series[at[k]]]
    IN  [x_train |-> [columns |-> x.columns, index |-> Take(x.index, train)],
         x_test |-> [columns |-> x.columns, index |-> Take(x.index, test)],
         y_train |-> [index |-> Take(y.index, train), values |-> Take(y.values, train)],
         y_test |-> [index |-> Take(y.index, test), values |-> Take(y.values, test)]]

\* RandomForestClassifier(random_state=42).fit(x_train, y_train): classes_ is the
\* sorted distinct labels and the features are the columns of x_train.  The
\* trees are not modelled; what the forest estimates stands as the share of
\* wins among the labels it was fitted on.
fit(x, y) ==
    [classes |-> SelectSeq(<<FALSE, TRUE>>, LAMBDA c : c \in Range(y.values)),
     feature_names |-> x.columns,
     wins |-> Cardinality({n \in 1 .. Len(y.values) : y.values[n]}),
     fitted_on |-> Len(y.values)]

\* ROLE_MAPPING
ROLE_MAPPING ==
    [UTILITY |-> "Suporte", BOTTOM |-> "ADC", TOP |-> "TOP", JUNGLE |-> "Jungle",
     MIDDLE |-> "MID"]

\* how often column c holds v, and the first row that holds it
Count(rows, c, v) == Cardinality({n \in 1 .. Len(rows) : rows[n][c] = v})

FirstSeen(rows, c, v) == Min({n \in 1 .. Len(rows) : rows[n][c] = v})

RECURSIVE MostFrequentFirst(_, _, _)
MostFrequentFirst(rows, c, S) ==
    IF S = {} THEN <<>>
    ELSE LET top == CHOOSE v \in S : \A w \in S :
                        \/ Count(rows, c, v) > Count(rows, c, w)
                        \/ /\ Count(rows, c, v) = Count(rows, c, w)
                           /\ FirstSeen(rows, c, v) <= FirstSeen(rows, c, w)
         IN  <<top>> \o MostFrequentFirst(rows, c, S \ {top})

\* df[c].unique(): the distinct values in the order of their first row
Unique(rows, c) ==
    LET firsts == SelectSeq([n \in 1 .. Len(rows) |-> n],
                            LAMBDA n : FirstSeen(rows, c, rows[n][c]) = n)
    IN  [k \in 1 .. Len(firsts) |-> rows[firsts[k]][c]]

\* the distinct values without the ordering by frequency
value_counts_Unsorted(rows, c) == Unique(rows, c)

\* df[c].value_counts().index: the distinct values, the most frequent first;
\* values of equal frequency stay in the order of their first row.
value_counts(rows, c) == MostFrequentFirst(rows, c, Levels(rows, c))

\* the whole list in place of its head
HeadOf_All(s, k) == s

\* .head(k)
HeadOf(s, k) == SubSeq(s, 1, IF Len(s) < k THEN Len(s) ELSE k)

RECURSIVE Sum(_, _, _)
Sum(rows, c, n) == IF n = 0 THEN Zero ELSE FracAdd(Sum(rows, c, n - 1), rows[n][c])

\* df[c].mean() of a column of fractions
Mean(rows, c) == FracDiv(Sum(rows, c, Len(rows)), Len(rows))

\* every indicator of the champion set, whether or not the schema has it
SyntheticEntry_Unguarded(columns, rows, champ, role) ==
    LET named == <<"kda", "duration", "champion_" \o champ, "role_" \o role>>
        added == SelectSeq(named, LAMBDA c : c \notin Range(columns))
    IN  [columns |-> columns \o added,
         values |-> [c \in Range(columns \o added) |->
                        CASE c = "kda" -> Mean(rows, "kda")
                          [] c = "duration" -> Mean(rows, "duration")
                          [] c = "champion_" \o champ -> One
                          [] c = "role_" \o role -> One
                          [] OTHER -> Zero]]

\* The synthetic row of one (champ, role) pair: zeros over the columns of x,
\* kda and duration set to the means (an assignment to a column the frame lacks
\* adds it at the end), the two indicators set to 1 where x has them.
SyntheticEntry(columns, rows, champ, role) ==
    LET added == SelectSeq(<<"kda", "duration">>, LAMBDA c : c \notin Range(columns))
    IN  [columns |-> columns \o added,
         values |-> [c \in Range(columns \o added) |->
                        CASE c = "kda" -> Mean(rows, "kda")
                          [] c = "duration" -> Mean(rows, "duration")
                          [] c = "champion_" \o champ -> One
                          [] c = "role_" \o role -> One
                          [] OTHER -> Zero]]

\* model.predict_proba(entry)[0][1] * 100: a forest refuses a row whose columns
\* are not the ones it was fitted on, and a forest fitted on one class has one
\* probability per row, so that [1] is out of range.
PredictProba(forest, entry) ==
    IF entry.columns /= forest.feature_names
    THEN [raised |-> Raised("ValueError", "predictByMostPlayed"), prob |-> Zero]
    ELSE IF Len(forest.classes) < 2
    THEN [raised |-> Raised("IndexError", "predictByMostPlayed"), prob |-> Zero]
    ELSE [raised |-> NoException, prob |-> Frac(100 * forest.wins, forest.fitted_on)]

\* ROLE_MAPPING.get(role, role)
RoleName(role) == Get(ROLE_MAPPING, role, role)

\* the pairs with the loops exchanged: roles outer, champions inner
Pairs_RolesOuter(champs, roles) ==
    [k \in 1 .. Len(champs) * Len(roles) |->
        <<champs[((k - 1) % Len(champs)) + 1], roles[((k - 1) \div Len(champs)) + 1]>>]

\* the (champ, role) pairs in loop order: champions outer, roles inner
Pairs(champs, roles) ==
    [k \in 1 .. Len(champs) * Len(roles) |->
        <<champs[((k - 1) \div Len(roles)) + 1], roles[((k - 1) % Len(roles)) + 1]>>]

\* .head(3) of the champions and .head(2) of the roles
TopChampions == 3

TopRoles == 2

\* predictByMostPlayed(model, x, df): the list it returns, the synthetic rows it
\* handed to the forest and the exception it ended in.  A frame without rows
\* has no 'champion' column; the first pair whose row the forest refuses ends
\* the call.
predictByMostPlayed(forest, x, rows) ==
    IF Len(rows) = 0
    THEN [predictions |-> <<>>, entries |-> <<>>,
          raised |-> Raised("KeyError", "predictByMostPlayed")]
    ELSE LET top_champions == HeadOf(value_counts(rows, "champion"), TopChampions)
             top_roles == HeadOf(value_counts(rows, "role"), TopRoles)
             pairs == Pairs(top_champions, top_roles)
             made == [k \in 1 .. Len(pairs) |->
                         SyntheticEntry(x.columns, rows, pairs[k][1], pairs[k][2])]
             first == PredictProba(forest, made[1])
         IN  IF Len(pairs) > 0 /\ first.raised /= NoException
             THEN [predictions |-> <<>>, entries |-> <<made[1]>>, raised |-> first.raised]
             ELSE [predictions |-> [k \in 1 .. Len(pairs) |->
                                       <<pairs[k][1], RoleName(pairs[k][2]),
                                         PredictProba(forest, made[k]).prob>>],
                   entries |-> made,
                   raised |-> NoException]

\* a frame and a series with nothing in them, and the model before fit
NoFrame == [columns |-> <<>>, index |-> <<>>]

NoSeries == [index |-> <<>>, values |-> <<>>]

NoModel == [classes |-> <<>>, feature_names |-> <<>>, wins |-> 0, fitted_on |-> 0]

\* the execution before the first one
NoRun == [matches |-> <<>>, puuid |-> None, calls |-> <<>>, df |-> <<>>,
          df_encoded |-> NoFrame, x_train |-> NoFrame, x_test |-> NoFrame,
          y_train |-> NoSeries, y_test |-> NoSeries]

\* nothing of model.py has run
MlIdle ==
    /\ rng = <<>>
    /\ df_encoded = NoFrame
    /\ x_train = NoFrame
    /\ x_test = NoFrame
    /\ y_train = NoSeries
    /\ y_test = NoSeries
    /\ model = NoModel
    /\ predictions = <<>>
    /\ entries = <<>>

\* a process that has just started: empty caches, nothing run
SessionIdle ==
    /\ cache = NoCache
    /\ prev = NoRun
    /\ runs = 0

\* ------------------------------------------------------------------- main.py

Init ==
    /\ pc = "start"
    /\ account = EmptyDict
    /\ puuid = None
    /\ matches = <<>>
    /\ i = 0
    /\ match_id = 0
    /\ match = EmptyDict
    /\ response = "none"
    /\ data = <<>>
    /\ df = <<>>
    /\ progress_bar = <<>>
    /\ errors = <<>>
    /\ slept = 0
    /\ requests = 0
    /\ calls = <<>>
    /\ status_text = ""
    /\ exc = NoException
    /\ MlIdle
    /\ SessionIdle

\* the player check left out
NotFound_Unchecked(id) == FALSE

\* if not puuid
NotFound(id) == ~Truthy(id)

\* The button handler up to the player check: progress 0, getPUUID, progress 0.15,
\* and the error message when the response carries no puuid.  getPUUID has no
\* handler: a transport failure of its request ends the run.
Resolve ==
    /\ pc = "start"
    /\ \E answer \in AccountResponses \cup {EmptyDict} : \E up \in BOOLEAN :
         LET got == getPUUID(cache, PlayerName, TagLine, answer, up)
         IN  /\ cache' = got.store
             /\ IF got.raised /= NoException
                THEN /\ pc' = "crashed"
                     /\ exc' = got.raised
                     /\ progress_bar' = <<Report("main", Frac(0, 1))>>
                     /\ UNCHANGED <<account, puuid, errors>>
                ELSE /\ account' = got.ret
                     /\ puuid' = Get(got.ret, "puuid", None)
                     /\ progress_bar' = <<Report("main", Frac(0, 1)),
                                          Report("main", Frac(15, 100))>>
                     /\ IF NotFound(puuid')
                        THEN /\ errors' = Append(errors,
                                    <<"player", Get(got.ret, "message", "Jogador nao encontrado.")>>)
                             /\ pc' = "halted"
                        ELSE /\ errors' = errors
                             /\ pc' = "list"
                     /\ exc' = exc
    /\ status_text' = "Procurando jogador..."
    /\ UNCHANGED <<matches, i, match_id, match, response, data, df, slept, requests, calls>>
    /\ UNCHANGED <<mlvars, prev, runs>>

\* the rows of an earlier call left in the list
NewData_Carried(left) == left

\* data = []
NewData(left) == <<>>

\* getMatches and progress 0.3; processMatches starts with data = [].
List ==
    /\ pc = "list"
    /\ \E answer \in Listings : \E up \in BOOLEAN :
         LET got == getMatches(cache, puuid, QuantMatches, answer, up)
         IN  /\ cache' = got.store
             /\ IF got.raised /= NoException
                THEN /\ pc' = "crashed"
                     /\ exc' = got.raised
                     /\ status_text' = "Baixando historico de partidas..."
                     /\ UNCHANGED <<matches, progress_bar>>
                ELSE /\ matches' = got.ret
                     /\ progress_bar' = Append(progress_bar, Report("main", Frac(30, 100)))
                     /\ status_text' = "Montando DataFrame..."
                     /\ pc' = "process"
                     /\ exc' = exc
    /\ i' = 0
    /\ data' = NewData(data)
    /\ UNCHANGED <<account, puuid, match_id, match, response, df, errors, slept,
                   requests, calls>>
    /\ UNCHANGED <<mlvars, prev, runs>>

\* One iteration of the loop of processMatches: the fetch, the scan of the
\* participants and the progress report.  A KeyError leaves the loop, and the
\* run, before the report.
ProcessMatch ==
    /\ pc = "process"
    /\ i < Len(matches)
    /\ \E outcome \in Outcomes :
         LET id == matches[i + 1]
             got == getMatchDetails(id, outcome)
             scan == Scan(got.ret, puuid)
         IN  /\ match_id' = id
             /\ response' = outcome
             /\ match' = got.ret
             /\ slept' = slept + got.slept
             /\ requests' = requests + got.attempts
             /\ errors' = errors \o got.errors
             /\ calls' = Append(calls, [fn |-> "getMatchDetails", id |-> id,
                                        outcome |-> outcome, ret |-> got.ret])
             /\ IF scan.raised /= None
                THEN /\ pc' = "crashed"
                     /\ exc' = Raised("KeyError", "processMatches")
                     /\ UNCHANGED <<i, data, progress_bar>>
                ELSE /\ data' = AppendRows(data, scan.rows)
                     /\ progress_bar' = Append(progress_bar,
                            Report("processMatches", Fraction(i + 1, Len(matches))))
                     /\ i' = i + 1
                     /\ UNCHANGED <<pc, exc>>
    /\ UNCHANGED <<account, puuid, matches, df, status_text>>
    /\ UNCHANGED <<mlvars, sessionvars>>

\* return pd.DataFrame(data)
ProcessReturn ==
    /\ pc = "process"
    /\ i = Len(matches)
    /\ df' = data
    /\ pc' = "encode"
    /\ UNCHANGED <<account, puuid, matches, i, match_id, match, response, data,
                   progress_bar, errors, slept, requests, calls, status_text, exc>>
    /\ UNCHANGED <<mlvars, sessionvars>>

\* progress 0.45, the encoding text, progress 0.7, the training text
Checkpoint ==
    /\ pc = "encode"
    /\ progress_bar' = progress_bar \o
                            <<Report("main", Frac(45, 100)), Report("main", Frac(70, 100))>>
    /\ status_text' = "Aplicando algoritmo Random Forest..."
    /\ pc' = "train"
    /\ UNCHANGED <<account, puuid, matches, i, match_id, match, response, data, df,
                   errors, slept, requests, calls, exc>>
    /\ UNCHANGED <<mlvars, sessionvars>>

\* trainModel(df), then progress 1.0 and the tabs of the presentation
Train ==
    /\ pc = "train"
    /\ IF trainModel(df) /= NoException
       THEN /\ pc' = "crashed"
            /\ exc' = trainModel(df)
            /\ UNCHANGED <<progress_bar, status_text, mlvars>>
       ELSE /\ \E perm \in Dealt(rng, Len(df)) :
                 LET encoded == get_dummies(df)
                     parts == train_test_split(DropWin(encoded),
                                               WinColumn(df, encoded), perm)
                 IN  /\ rng' = (Len(df) :> perm) @@ rng
                     /\ df_encoded' = encoded
                     /\ x_train' = parts.x_train
                     /\ x_test' = parts.x_test
                     /\ y_train' = parts.y_train
                     /\ y_test' = parts.y_test
                     /\ model' = fit(parts.x_train, parts.y_train)
            /\ pc' = "tabs"
            /\ progress_bar' = Append(progress_bar, Report("main", Frac(1, 1)))
            /\ status_text' = "Concluido!"
            /\ UNCHANGED <<exc, predictions, entries>>
    /\ UNCHANGED <<account, puuid, matches, i, match_id, match, response, data, df,
                   errors, slept, requests, calls>>
    /\ UNCHANGED sessionvars

Next == Resolve \/ List \/ ProcessMatch \/ ProcessReturn \/ Checkpoint \/ Train

Spec == Init /\ [][Next]_vars

\* ------------------------------------------------- extraction of one record

\* Participants of the target player over every kills / deaths / assists line
\* up to MaxStat, with and without the fields read with a default.
RowParticipants ==
    UNION { { Participant(Target, "Ahri", TRUE, k, d, a, "MIDDLE", TRUE),
              WithoutOptional(Participant(Target, "Ahri", TRUE, k, d, a, "MIDDLE", TRUE)) }
            : k \in 0 .. MaxStat, d \in 0 .. MaxStat, a \in 0 .. MaxStat }

InitRow ==
    /\ pc = "row"
    /\ account = [puuid |-> Target]
    /\ puuid = Target
    /\ matches = <<1>>
    /\ i = 0
    /\ match_id = 1
    /\ \E p \in RowParticipants : match = MatchRecord(<<Stranger, p>>, 1800)
    /\ response = "ok"
    /\ data = <<>>
    /\ df = <<>>
    /\ progress_bar = <<>>
    /\ errors = <<>>
    /\ slept = 0
    /\ requests = 0
    /\ calls = <<>>
    /\ status_text = "Montando DataFrame..."
    /\ exc = NoException
    /\ MlIdle
    /\ SessionIdle

\* The inner loop of processMatches over the record in match.
ExtractRow ==
    /\ pc = "row"
    /\ LET scan == Scan(match, puuid)
       IN  IF scan.raised /= None
           THEN /\ pc' = "crashed"
                /\ exc' = Raised("KeyError", "processMatches")
                /\ UNCHANGED data
           ELSE /\ pc' = "row_done"
                /\ data' = AppendRows(data, scan.rows)
                /\ UNCHANGED exc
    /\ UNCHANGED <<account, puuid, matches, i, match_id, match, response, df,
                   progress_bar, errors, slept, requests, calls, status_text>>
    /\ UNCHANGED <<mlvars, sessionvars>>

NextRow == ExtractRow

SpecRow == InitRow /\ [][NextRow]_vars

\* ------------------------------------------- the api_utils functions called

\* Matches whose records hold the player with every field.
RepeatIds == {1, 2}

\* Riot IDs a user may type, and numbers of matches the slider may stand at.
PlayerNames == {PlayerName, "FakerLeBlanc"}

Quants == {10, QuantMatches}

\* What the account endpoint and the listing endpoint may answer.
ApiAccounts == {[puuid |-> Target, gameName |-> PlayerName, tagLine |-> TagLine],
                [status |-> "404"]}

ApiListings == {<<2>>, <<1, 2>>}

\* A process in which nothing has been called yet.
InitApi ==
    /\ pc = "api"
    /\ account = EmptyDict
    /\ puuid = None
    /\ matches = <<>>
    /\ i = 0
    /\ match_id = 0
    /\ match = EmptyDict
    /\ response = "none"
    /\ data = <<>>
    /\ df = <<>>
    /\ progress_bar = <<>>
    /\ errors = <<>>
    /\ slept = 0
    /\ requests = 0
    /\ calls = <<>>
    /\ status_text = ""
    /\ exc = NoException
    /\ MlIdle
    /\ SessionIdle

\* account = getPUUID(player_name, tag_line)
CallGetPUUID ==
    /\ pc = "api"
    /\ Len(calls) < MaxCalls
    /\ \E name \in PlayerNames : \E answer \in ApiAccounts : \E up \in BOOLEAN :
         LET got == getPUUID(cache, name, TagLine, answer, up)
         IN  /\ cache' = got.store
             /\ exc' = got.raised
             /\ account' = IF got.raised = NoException THEN got.ret ELSE account
             /\ calls' = Append(calls, [fn |-> "getPUUID", id |-> <<name, TagLine>>,
                                        outcome |-> got.outcome, ret |-> got.ret])
    /\ UNCHANGED <<pc, puuid, matches, i, match_id, match, response, data, df,
                   progress_bar, errors, slept, requests, status_text>>
    /\ UNCHANGED <<mlvars, prev, runs>>

\* matches = getMatches(puuid, quant)
CallGetMatches ==
    /\ pc = "api"
    /\ Len(calls) < MaxCalls
    /\ \E quant \in Quants : \E answer \in ApiListings : \E up \in BOOLEAN :
         LET got == getMatches(cache, Target, quant, answer, up)
         IN  /\ cache' = got.store
             /\ exc' = got.raised
             /\ matches' = IF got.raised = NoException THEN got.ret ELSE matches
             /\ calls' = Append(calls, [fn |-> "getMatches", id |-> <<Target, quant>>,
                                        outcome |-> got.outcome, ret |-> got.ret])
    /\ UNCHANGED <<pc, account, puuid, i, match_id, match, response, data, df,
                   progress_bar, errors, slept, requests, status_text>>
    /\ UNCHANGED <<mlvars, prev, runs>>

\* match = getMatchDetails(match_id)
CallGetMatchDetails ==
    /\ pc = "api"
    /\ Len(calls) < MaxCalls
    /\ \E id \in RepeatIds : \E outcome \in Outcomes :
         LET got == getMatchDetails(id, outcome)
         IN  /\ match_id' = id
             /\ response' = outcome
             /\ match' = got.ret
             /\ slept' = slept + got.slept
             /\ requests' = requests + got.attempts
             /\ errors' = errors \o got.errors
             /\ calls' = Append(calls, [fn |-> "getMatchDetails", id |-> id,
                                        outcome |-> outcome, ret |-> got.ret])
    /\ UNCHANGED <<pc, account, puuid, matches, i, data, df, progress_bar,
                   status_text, exc>>
    /\ UNCHANGED <<mlvars, sessionvars>>

NextApi == CallGetPUUID \/ CallGetMatches \/ CallGetMatchDetails

SpecApi == InitApi /\ [][NextApi]_vars

\* ------------------------------------------------ extraction called again

RepeatListings == {s \in Listings : Range(s) \subseteq RepeatIds}

\* the reports of main.py before processMatches is called
ReportsBeforeExtraction ==
    <<Report("main", Frac(0, 1)), Report("main", Frac(15, 100)), Report("main", Frac(30, 100))>>

\* The state in which main.py calls processMatches: the account and the list
\* have been fetched and are in the cache.
InitRepeat ==
    /\ pc = "process"
    /\ account = [puuid |-> Target, gameName |-> PlayerName, tagLine |-> TagLine]
    /\ puuid = Target
    /\ matches \in RepeatListings
    /\ i = 0
    /\ match_id = 0
    /\ match = EmptyDict
    /\ response = "none"
    /\ data = <<>>
    /\ df = <<>>
    /\ progress_bar = ReportsBeforeExtraction
    /\ errors = <<>>
    /\ slept = 0
    /\ requests = 0
    /\ calls = <<>>
    /\ status_text = "Montando DataFrame..."
    /\ exc = NoException
    /\ MlIdle
    /\ cache = [getPUUID |-> (<<PlayerName, TagLine>> :> account),
                getMatches |-> (<<puuid, QuantMatches>> :> matches)]
    /\ prev = NoRun
    /\ runs = 0

\* The button pressed again after processMatches has returned: the script runs
\* from the top, getPUUID and getMatches answer from the cache, and
\* processMatches is called with the same list and the same puuid.
Reextract ==
    /\ pc = "encode"
    /\ runs < MaxReruns
    /\ runs' = runs + 1
    /\ prev' = [NoRun EXCEPT !.matches = matches, !.puuid = puuid, !.calls = calls, !.df = df]
    /\ account' = Cached(cache, "getPUUID", <<PlayerName, TagLine>>, EmptyDict, TRUE).ret
    /\ puuid' = Get(account', "puuid", None)
    /\ matches' = Cached(cache, "getMatches", <<puuid', QuantMatches>>, <<>>, TRUE).ret
    /\ pc' = "process"
    /\ i' = 0
    /\ data' = NewData(data)
    /\ calls' = <<>>
    /\ errors' = <<>>
    /\ progress_bar' = ReportsBeforeExtraction
    /\ status_text' = "Montando DataFrame..."
    /\ UNCHANGED <<match_id, match, response, df, slept, requests, exc, cache>>
    /\ UNCHANGED mlvars

NextRepeat == ProcessMatch \/ ProcessReturn \/ Reextract

SpecRepeat == InitRepeat /\ [][NextRepeat]_vars

\* --------------------------------------------------- training on a dataset

\* the datasets of at most n rows drawn from S
Datasets(S, n) == UNION { [1 .. k -> S] : k \in 0 .. n }

\* The rows processMatches extracts from the first three records of the server.
TrainRows == {Scan(Server[id], Target).rows[1] : id \in 1 .. 3}

\* The state in which main.py calls trainModel: a dataset has been extracted.
InitTrain ==
    /\ pc = "train"
    /\ account = [puuid |-> Target]
    /\ puuid = Target
    /\ matches = <<>>
    /\ i = 0
    /\ match_id = 0
    /\ match = EmptyDict
    /\ response = "none"
    /\ data = <<>>
    /\ df \in Datasets(TrainRows, MaxTrainRows)
    /\ progress_bar = <<>>
    /\ errors = <<>>
    /\ slept = 0
    /\ requests = 0
    /\ calls = <<>>
    /\ status_text = "Aplicando algoritmo Random Forest..."
    /\ exc = NoException
    /\ MlIdle
    /\ SessionIdle

\* The button pressed again after a run that trained, the same dataset having
\* been extracted again: trainModel is about to be called on it once more.
Retrain ==
    /\ pc = "tabs"
    /\ runs < MaxReruns
    /\ runs' = runs + 1
    /\ prev' = [NoRun EXCEPT !.df = df, !.df_encoded = df_encoded,
                             !.x_train = x_train, !.x_test = x_test,
                             !.y_train = y_train, !.y_test = y_test]
    /\ pc' = "train"
    /\ progress_bar' = <<>>
    /\ status_text' = "Aplicando algoritmo Random Forest..."
    /\ UNCHANGED <<account, puuid, matches, i, match_id, match, response, data, df,
                   errors, slept, requests, calls, exc>>
    /\ UNCHANGED <<mlvars, cache>>

NextTrain == Train \/ Retrain

SpecTrain == InitTrain /\ [][NextTrain]_vars

\* ------------------------------------------------ predictions on a dataset

\* Rows processMatches extracts for the player: four champions over four
\* roles, wins and losses, different kda and duration.
SampleRows ==
    { Row(Participant(Target, "Ahri", TRUE, 5, 1, 5, "MIDDLE", TRUE), [gameDuration |-> 1800]),
      Row(Participant(Target, "Ahri", FALSE, 2, 4, 2, "TOP", FALSE), [gameDuration |-> 1500]),
      Row(Participant(Target, "Garen", TRUE, 3, 0, 1, "TOP", FALSE), [gameDuration |-> 2400]),
      Row(Participant(Target, "Zed", FALSE, 1, 5, 0, "MIDDLE", FALSE), [gameDuration |-> 1200]),
      Row(Participant(Target, "Zed", TRUE, 4, 2, 2, "JUNGLE", TRUE), [gameDuration |-> 2100]),
      Row(Participant(Target, "Lux", FALSE, 0, 3, 4, "UTILITY", FALSE), [gameDuration |-> 1800]) }

\* The state in which show_lane_predictions calls predictByMostPlayed: a dataset
\* with at least one row and a forest with its training frame.  The forest was
\* fitted on the dataset or on the dataset before its last row came in.
InitPredict ==
    /\ pc = "predict"
    /\ account = [puuid |-> Target]
    /\ puuid = Target
    /\ matches = <<>>
    /\ i = 0
    /\ match_id = 0
    /\ match = EmptyDict
    /\ response = "none"
    /\ data = <<>>
    /\ df \in Datasets(SampleRows, MaxRows) \ {<<>>}
    /\ progress_bar = <<>>
    /\ errors = <<>>
    /\ slept = 0
    /\ requests = 0
    /\ calls = <<>>
    /\ status_text = "Concluido!"
    /\ exc = NoException
    /\ rng = <<>>
    /\ \E fitted \in {df} \cup (IF Len(df) > 1 THEN {SubSeq(df, 1, Len(df) - 1)} ELSE {}) :
         /\ df_encoded = get_dummies(fitted)
         /\ x_train = DropWin(df_encoded)
         /\ y_train = WinColumn(fitted, df_encoded)
         /\ model = fit(x_train, y_train)
    /\ x_test = NoFrame
    /\ y_test = NoSeries
    /\ predictions = <<>>
    /\ entries = <<>>
    /\ SessionIdle

\* results = predictByMostPlayed(model, x_train, df)
Predict ==
    /\ pc = "predict"
    /\ LET result == predictByMostPlayed(model, x_train, df)
       IN  /\ predictions' = result.predictions
           /\ entries' = result.entries
           /\ exc' = result.raised
           /\ pc' = IF result.raised = NoException THEN "predicted" ELSE "crashed"
    /\ UNCHANGED <<account, puuid, matches, i, match_id, match, response, data, df,
                   progress_bar, errors, slept, requests, calls, status_text>>
    /\ UNCHANGED <<rng, df_encoded, x_train, x_test, y_train, y_test, model>>
    /\ UNCHANGED sessionvars

NextPredict == Predict

SpecPredict == InitPredict /\ [][NextPredict]_vars

\* ------------------------------------- training, then the predictions tab

\* main.py, tab6: show_lane_predictions(model, x_train, df), whose first
\* statement that computes is results = predictByMostPlayed(model, x_train, df),
\* on what trainModel returned for df.  The five tabs before it read df, the
\* parts and the forest and assign none of them; a run that ends in one of them
\* never makes this call.
ShowLanePredictions ==
    /\ pc = "tabs"
    /\ LET result == predictByMostPlayed(model, x_train, df)
       IN  /\ predictions' = result.predictions
           /\ entries' = result.entries
           /\ exc' = result.raised
           /\ pc' = IF result.raised = NoException THEN "predicted" ELSE "crashed"
    /\ UNCHANGED <<account, puuid, matches, i, match_id, match, response, data, df,
                   progress_bar, errors, slept, requests, calls, status_text>>
    /\ UNCHANGED <<rng, df_encoded, x_train, x_test, y_train, y_test, model>>
    /\ UNCHANGED sessionvars

NextWired == Train \/ ShowLanePredictions

SpecWired == InitTrain /\ [][NextWired]_vars

\* ------------------------------------------------------------------- claims

\* no value occurs twice in the list
NoDuplicates(s) == Cardinality(Range(s)) = Len(s)

IsTarget(p, t) == Has(p, "puuid") /\ p["puuid"] = t

\* the positions of the participants of record m whose puuid is t
TargetPositions(m, t) ==
    {k \in 1 .. Len(ParticipantsOf(m)) : IsTarget(ParticipantsOf(m)[k], t)}

HasTarget(m, t) == TargetPositions(m, t) /= {}

Returned == pc \in {"encode", "train", "tabs"} \/ exc.at = "trainModel"

\* C1: processMatches produces exactly one row for each listed match whose fetched
\* record has a participant with the target puuid (one row also when several
\* participants carry it) and no row for every other listed match: after every
\* completed iteration the number of rows is the number of fetched records that
\* contain the player, and once the function has returned every listed id has
\* been through an iteration.
C1_OneRowPerMatchWithPlayer ==
    /\ i <= Len(calls)
    /\ Len(data) = Cardinality({j \in 1 .. i : HasTarget(calls[j].ret, puuid)})
    /\ Returned => /\ i = Len(matches)
                   /\ Len(calls) = Len(matches)
                   /\ \A j \in 1 .. Len(matches) : calls[j].id = matches[j]
                   /\ df = data

\* A returned dataset of one row from a list of two matches: the first record
\* holds the player twice, the second was fetched and does not hold the player.
C1_Witness ==
    /\ pc = "encode"
    /\ Len(matches) = 2
    /\ Cardinality(TargetPositions(calls[1].ret, puuid)) = 2
    /\ calls[2].outcome = "ok"
    /\ Len(ParticipantsOf(calls[2].ret)) > 0
    /\ ~HasTarget(calls[2].ret, puuid)
    /\ Len(df) = 1

Failed(c) == c.outcome \in {"http_error", "transport_error"}

MissingStructure(m) == ~Has(m, "info") \/ ~Has(m["info"], "participants")

\* C2: an iteration of processMatches whose fetch fails, or whose record lacks
\* 'info' or 'participants', adds no row and goes on with the next id: the loop
\* is not left, no exception ends the run, and when the function returns every
\* listed id has been requested.
C2_FailedFetchSkipsOneMatch ==
    [][ /\ (pc = "process" /\ calls' /= calls /\
              (Failed(calls'[Len(calls')]) \/ MissingStructure(calls'[Len(calls')].ret)))
           => /\ calls'[Len(calls')].id = matches[i + 1]
              /\ data' = data
              /\ i' = i + 1
              /\ pc' = "process"
              /\ exc' = NoException
        /\ (pc = "process" /\ pc' = "encode")
           => /\ Len(calls) = Len(matches)
              /\ \A j \in 1 .. Len(matches) : calls[j].id = matches[j]
      ]_vars

\* The first of two fetches failed, the second was made all the same and its
\* row is in the returned dataset.
C2_Witness ==
    /\ pc = "encode"
    /\ Len(calls) = 2
    /\ Failed(calls[1])
    /\ calls[2].outcome = "ok"
    /\ HasTarget(calls[2].ret, puuid)
    /\ Len(df) = 1

\* C3: getMatchDetails answers a transport or HTTP error with one error message
\* and the empty dict, never with an exception, and a failure changes nothing for
\* later calls: a call whose exchange succeeds returns the record of its id.
C3_FailureReturnsEmptyAndLeavesNoState ==
    /\ \A j \in 1 .. Len(calls) :
         /\ Failed(calls[j]) => /\ calls[j].ret = EmptyDict
                                /\ <<"match", calls[j].id>> \in Range(errors)
         /\ calls[j].outcome = "ok" => calls[j].ret = Server[calls[j].id]
    /\ Cardinality({j \in 1 .. Len(calls) : Failed(calls[j])})
         = Cardinality({n \in 1 .. Len(errors) : errors[n][1] = "match"})
    /\ exc.at /= "getMatchDetails"

\* A transport failure followed by a successful call for another id that
\* returned that id's record.
C3_Witness ==
    /\ Len(calls) = 2
    /\ calls[1].outcome = "transport_error"
    /\ calls[2].outcome = "ok"
    /\ calls[2].id /= calls[1].id
    /\ calls[2].ret = Server[calls[2].id]
    /\ HasTarget(calls[2].ret, puuid)

\* C4: every call of getMatchDetails sleeps SleepSeconds before it returns, on
\* each of its paths: the seconds slept are SleepSeconds for every request made.
C4_DelayAfterEveryCall == slept = SleepSeconds * requests

\* the run is past processMatches: the extractor has returned its dataset
ExtractionReturned == status_text = "Aplicando algoritmo Random Forest..."

\* C5: once the player id is resolved and the extractor has returned its dataset,
\* whatever the listing and the fetches gave (an empty dataset and a dataset of
\* one row included), no unhandled exception ends the run before the
\* presentation.
C5_ResolvedRunReachesPresentation ==
    (Truthy(puuid) /\ ExtractionReturned) => pc /= "crashed"

\* C6: when the account response carries no puuid the run shows one error
\* message and stops: no listing, no match request, no extraction, no training.
C6_NotFoundHaltsRun ==
    (pc /= "start" /\ exc.at /= "getPUUID" /\ ~Has(account, "puuid"))
    => /\ pc = "halted"
       /\ errors = << <<"player", Get(account, "message", "Jogador nao encontrado.")>> >>
       /\ status_text = "Procurando jogador..."
       /\ Len(progress_bar) = 2
       /\ matches = <<>>
       /\ requests = 0
       /\ calls = <<>>
       /\ data = <<>>
       /\ df = <<>>
       /\ exc = NoException

\* The account endpoint answered with a message and no puuid; the run stopped
\* after showing it.
C6_Witness ==
    /\ pc = "halted"
    /\ Has(account, "message")
    /\ errors = << <<"player", "Forbidden">> >>

\* C7: a field absent from a fetched record never makes processMatches raise.
C7_MissingFieldNeverRaises == exc /= Raised("KeyError", "processMatches")

\* the values processMatches sent to the progress bar, in order
SinkReports == SelectSeq(progress_bar, LAMBDA r : r.at = "processMatches")

ReportsWellFormed ==
    /\ Len(SinkReports) = i
    /\ \A j \in 1 .. Len(SinkReports) :
         /\ FracLess(Zero, SinkReports[j].value)
         /\ FracLeq(SinkReports[j].value, One)
    /\ \A j, k \in 1 .. Len(SinkReports) :
         j < k => FracLeq(SinkReports[j].value, SinkReports[k].value)

\* C8 as stated: one report after each match, non-decreasing within (0, 1], and
\* for every list, the empty one included, the last report is 1.0.
C8_LastReportIsOneForEveryList ==
    /\ ReportsWellFormed
    /\ Returned => /\ Len(SinkReports) = Len(matches)
                   /\ Len(SinkReports) > 0
                   /\ FracEq(SinkReports[Len(SinkReports)].value, One)

\* C8 amended: one report after each match, non-decreasing within (0, 1]; for
\* every non-empty list the last report is 1.0 whatever the number of rows, and
\* for the empty list processMatches sends no report at all.
C8_LastReportIsOneUnlessListEmpty ==
    /\ ReportsWellFormed
    /\ Returned => /\ Len(SinkReports) = Len(matches)
                   /\ Len(matches) > 0 => FracEq(SinkReports[Len(SinkReports)].value, One)
                   /\ Len(matches) = 0 => SinkReports = <<>>

\* Two matches whose fetches both failed: no row, two reports, the last one 1.0.
C8_Witness ==
    /\ pc = "encode"
    /\ Len(calls) = 2
    /\ \A j \in 1 .. 2 : Failed(calls[j])
    /\ df = <<>>
    /\ Len(SinkReports) = 2
    /\ FracLess(SinkReports[1].value, SinkReports[2].value)
    /\ FracEq(SinkReports[2].value, One)

\* C9: in every extracted row kda = (kills + assists) / max(deaths, 1): the
\* divisor is never zero, and with no death kda is kills + assists.
C9_KdaGuardsZeroDeaths ==
    \A n \in 1 .. Len(data) :
        /\ data[n].kda[2] /= 0
        /\ FracEq(data[n].kda, Frac(data[n].kills + data[n].assists, Max(data[n].deaths, 1)))
        /\ data[n].deaths = 0 => FracEq(data[n].kda, Frac(data[n].kills + data[n].assists, 1))

\* The row of a 2/0/2 game: kda 4.
C9_Witness ==
    /\ pc = "row_done"
    /\ Len(data) = 1
    /\ data[1].kills = 2 /\ data[1].deaths = 0 /\ data[1].assists = 2
    /\ FracEq(data[1].kda, Frac(4, 1))

RECURSIVE SourcePlayers(_, _)
\* for each logged call whose record holds the player, the first participant
\* record that carries the player's puuid
SourcePlayers(log, t) ==
    IF Len(log) = 0 THEN <<>>
    ELSE LET m == Head(log).ret
         IN  (IF HasTarget(m, t) THEN <<ParticipantsOf(m)[Min(TargetPositions(m, t))]>>
              ELSE <<>>) \o SourcePlayers(Tail(log), t)

\* C10: every row has a first_blood field that is 0 or 1: 1 when the participant
\* record it was built from marks a first-blood kill, 0 when it marks none or
\* has no such field.
C10_FirstBloodIsZeroOrOne ==
    LET src == SourcePlayers(SubSeq(calls, 1, i), puuid)
    IN  /\ Len(data) = Len(src)
        /\ \A n \in 1 .. Len(data) :
             /\ Has(data[n], "first_blood")
             /\ data[n].first_blood \in {0, 1}
             /\ data[n].first_blood = 1
                  <=> (Has(src[n], "firstBloodKill") /\ src[n]["firstBloodKill"])

\* A dataset of a first-blood game and of a game whose record has no
\* firstBloodKill field.
C10_Witness ==
    /\ pc = "encode"
    /\ Len(df) = 2
    /\ df[1].first_blood = 1
    /\ df[2].first_blood = 0
    /\ ~Has(SourcePlayers(calls, puuid)[2], "firstBloodKill")

\* the number of distinct values of column c
Distinct(rows, c) == Cardinality(Levels(rows, c))

\* C11: for every dataset, predictByMostPlayed returns at most 6 predictions and at
\* least min(distinct champions, 3) * min(distinct roles, 2) of them.
C11_PredictionCountBounds ==
    pc = "predicted" =>
        /\ Len(predictions) <= 6
        /\ Len(predictions) >= Min({Distinct(df, "champion"), 3}) * Min({Distinct(df, "role"), 2})

\* a returned list of six predictions for a dataset of four champions
C11_Witness ==
    /\ pc = "predicted"
    /\ Distinct(df, "champion") = 4
    /\ Distinct(df, "role") >= 3
    /\ Len(predictions) = 6

\* S holds k values of column c and none left out is more frequent than one in S
MostFrequent(rows, c, S, k) ==
    /\ S \subseteq Levels(rows, c)
    /\ Cardinality(S) = k
    /\ \A v \in S : \A w \in Levels(rows, c) \ S : Count(rows, c, v) >= Count(rows, c, w)

\* C12: the returned list holds exactly one entry for every pair of one of the 3
\* most frequent champions and one of the 2 most frequent roles, champion by
\* champion: the entries of one champion are adjacent and run through the roles
\* in the same order for every champion.  With a single distinct role every
\* prediction is for that role.
C12_OneEntryPerPairChampionMajor ==
    pc = "predicted" =>
        LET nc == Min({Distinct(df, "champion"), 3})
            nr == Min({Distinct(df, "role"), 2})
        IN  /\ Len(predictions) = nc * nr
            /\ \E champs \in [1 .. nc -> Levels(df, "champion")] :
               \E roles \in [1 .. nr -> Levels(df, "role")] :
                 /\ MostFrequent(df, "champion", Range(champs), nc)
                 /\ MostFrequent(df, "role", Range(roles), nr)
                 /\ \A a \in 1 .. nc : \A b \in 1 .. nr :
                      /\ predictions[(a - 1) * nr + b][1] = champs[a]
                      /\ predictions[(a - 1) * nr + b][2] = Get(ROLE_MAPPING, roles[b], roles[b])
            /\ Distinct(df, "role") = 1 =>
                 \A k \in 1 .. Len(predictions) :
                     predictions[k][2] = Get(ROLE_MAPPING, df[1]["role"], df[1]["role"])

\* three champions over two roles, one role played more often than the others,
\* and a returned list whose first two entries are the first champion's
C12_Witness ==
    /\ pc = "predicted"
    /\ Len(predictions) = 6
    /\ predictions[1][1] = predictions[2][1]
    /\ predictions[1][2] /= predictions[2][2]
    /\ predictions[3][1] /= predictions[1][1]
    /\ \E r \in Levels(df, "role") : Count(df, "role", r) = 2

\* a dataset played on one role only, and predictions for more than one champion
C12_WitnessSingleRole ==
    /\ pc = "predicted"
    /\ Distinct(df, "role") = 1
    /\ Len(predictions) >= 2

\* C13: the one-hot encoded frame has exactly the original columns that are not
\* categorical plus one champion_<v> column for each distinct champion and one
\* role_<v> column for each distinct role of the dataset, none extra, none
\* missing, none twice, and a second run on the same dataset gives the columns
\* in the same order.
C13_EncodedColumnsExact ==
    pc = "tabs" =>
        /\ Range(df_encoded.columns) =
               (Range(DataFrameColumns) \ {"champion", "role"})
               \cup {"champion_" \o df[n]["champion"] : n \in 1 .. Len(df)}
               \cup {"role_" \o df[n]["role"] : n \in 1 .. Len(df)}
        /\ NoDuplicates(df_encoded.columns)
        /\ runs > 0 => df_encoded.columns = prev.df_encoded.columns

\* a dataset of two champions and two roles encoded a second time
C13_Witness ==
    /\ pc = "tabs"
    /\ runs > 0
    /\ prev.df = df
    /\ Distinct(df, "champion") = 2
    /\ Distinct(df, "role") = 2
    /\ Len(df_encoded.columns) = 15

\* C14: the split of an encoded dataset of n rows puts every row in exactly one
\* part (the sizes add up to n and no row is in both), the test part is 20% of
\* n within rounding (less than one row away from n / 5), the labels go with
\* their rows, and a second run on the same dataset gives the same split.
C14_SplitPartitionsDeterministically ==
    pc = "tabs" =>
        LET n == Len(df)
            train == x_train.index
            test == x_test.index
        IN  /\ Len(train) + Len(test) = n
            /\ Range(train) \cap Range(test) = {}
            /\ Range(train) \cup Range(test) = 1 .. n
            /\ 5 * Len(test) - n < 5
            /\ n - 5 * Len(test) < 5
            /\ y_train.index = train
            /\ y_test.index = test
            /\ \A k \in 1 .. Len(train) : y_train.values[k] = df[train[k]]["win"]
            /\ \A k \in 1 .. Len(test) : y_test.values[k] = df[test[k]]["win"]
            /\ runs > 0 => /\ x_train = prev.x_train
                           /\ x_test = prev.x_test
                           /\ y_train = prev.y_train
                           /\ y_test = prev.y_test

\* four rows split a second time: three for training, one for the test, and the
\* rows not dealt in their original order
C14_Witness ==
    /\ pc = "tabs"
    /\ runs > 0
    /\ prev.df = df
    /\ Len(df) = 4
    /\ Len(x_train.index) = 3
    /\ Len(x_test.index) = 1
    /\ x_test.index /= <<1>>
    /\ x_train.index[1] > x_train.index[2]

\* processMatches has returned for the second time on the same list and puuid
ExtractedAgain ==
    /\ pc = "encode"
    /\ runs > 0
    /\ prev.matches = matches
    /\ prev.puuid = puuid

\* C15: extraction is idempotent: processMatches run twice with the same match
\* list and the same player id yields identical datasets (same rows, same
\* order, same values).
C15_SecondExtractionSameDataset == ExtractedAgain => df = prev.df

\* what does hold: two extractions whose fetches returned the same values give
\* the same dataset
SameRecordsSameDataset ==
    (ExtractedAgain /\ \A j \in 1 .. Len(calls) : calls[j].ret = prev.calls[j].ret)
        => df = prev.df

\* the logged call came back with a value: getPUUID and getMatches let a
\* transport failure through as an exception, getMatchDetails returns {} for it
CallReturned(c) == c.fn = "getMatchDetails" \/ c.outcome /= "transport_error"

\* call b repeats call a: the same function with the same arguments
Repeats(a, b) ==
    /\ a < b
    /\ calls[a].fn = calls[b].fn
    /\ calls[a].id = calls[b].id
    /\ CallReturned(calls[a])

\* C16: the results of getPUUID, getMatches and getMatchDetails are memoized by
\* their exact arguments: a repeated call with identical arguments in the same
\* process returns the result of the first call without a new network request,
\* whatever was called in between (entries are never evicted).
C16_RepeatedCallIsMemoized ==
    \A a, b \in 1 .. Len(calls) :
        Repeats(a, b) => /\ calls[b].outcome = "cached"
                         /\ calls[b].ret = calls[a].ret

\* what does hold: the two functions under st.cache_data are memoized
DecoratedCallsAreMemoized ==
    \A a, b \in 1 .. Len(calls) :
        (Repeats(a, b) /\ calls[a].fn /= "getMatchDetails")
            => /\ calls[b].outcome = "cached"
               /\ calls[b].ret = calls[a].ret

\* getPUUID called, something else called, getPUUID called again with the same
\* arguments
DecoratedCallRepeated ==
    /\ Len(calls) = 3
    /\ calls[1].fn = "getPUUID"
    /\ calls[2].fn /= "getPUUID"
    /\ Repeats(1, 3)

\* C17: for a list of N match ids processMatches sends exactly N match-detail
\* requests, one per list element in list order, each call with exactly one
\* network attempt (a failure is not retried), and a request is over before the
\* next is sent: at every moment the requests sent are the calls made, call j is
\* for element j of the list, at most one call is beyond the completed
\* iterations (the one whose record ended the run), and on return N were sent.
C17_OneRequestPerListedMatch ==
    /\ requests = Len(calls)
    /\ Len(calls) <= Len(matches)
    /\ \A j \in 1 .. Len(calls) : calls[j].id = matches[j]
    /\ Len(calls) \in {i, i + 1}
    /\ Len(calls) = i + 1 => pc = "crashed"
    /\ Returned => requests = Len(matches)

\* a returned extraction over two matches, one of whose requests failed
C17_Witness ==
    /\ Returned
    /\ Len(matches) = 2
    /\ requests = 2
    /\ calls[1].outcome /= "ok"
    /\ calls[2].outcome = "ok"

\* the synthetic row e is the row of the pair (champ, role) over the schema x
IsEntryOf(e, x, rows, champ, role) ==
    /\ e.columns = x.columns
    /\ DOMAIN e.values = Range(x.columns)
    /\ \A c \in Range(x.columns) :
         IF c \in {"kda", "duration"}
         THEN FracEq(<<e.values[c][1] * Len(rows), e.values[c][2]>>, Sum(rows, c, Len(rows)))
         ELSE IF c \in {"champion_" \o champ, "role_" \o role}
              THEN e.values[c] = One
              ELSE e.values[c] = Zero

\* C18: every synthetic row predictByMostPlayed hands to the forest has exactly
\* the columns of the schema, in the schema's order; kda and duration hold the
\* means over the whole dataset; every other column is zero except
\* champion_<champ> and role_<role> of its pair, which are 1 where the schema has
\* such a column.  A column the schema lacks is not added and is no error: the
\* forest never refuses a row for its columns.
C18_SyntheticRowMatchesSchema ==
    /\ exc /= Raised("ValueError", "predictByMostPlayed")
    /\ pc = "predicted" => Len(entries) = Len(predictions)
    /\ \A k \in 1 .. Len(entries) :
         \E champ \in Levels(df, "champion") : \E role \in Levels(df, "role") :
             /\ IsEntryOf(entries[k], x_train, df, champ, role)
             /\ pc = "predicted" =>
                    /\ predictions[k][1] = champ
                    /\ predictions[k][2] = Get(ROLE_MAPPING, role, role)

\* returned predictions for a champion the schema has no column for, next to
\* one it has a column for
C18_Witness ==
    /\ pc = "predicted"
    /\ \E k \in 1 .. Len(entries) :
         "champion_" \o predictions[k][1] \notin Range(x_train.columns)
    /\ \E k \in 1 .. Len(entries) :
         /\ "champion_" \o predictions[k][1] \in Range(x_train.columns)
         /\ entries[k].values["champion_" \o predictions[k][1]] = One
    /\ ~FracEq(entries[1].values["kda"], df[1]["kda"])

\* the positions in the list, in list order, of the matches that have been
\* through an iteration and whose fetched record holds the player
PositionsWithPlayer ==
    SelectSeq([j \in 1 .. i |-> j], LAMBDA j : HasTarget(calls[j].ret, puuid))

\* C19: the rows of the dataset are in the same relative order as their match ids
\* in the input list: row n is built from the record of the n-th listed match
\* that holds the player, so the dataset is an order-preserving sub-sequence of
\* the list and has at most as many rows as the list has ids.
C19_RowsFollowListOrder ==
    LET at == PositionsWithPlayer
        src == SourcePlayers(SubSeq(calls, 1, i), puuid)
    IN  /\ Len(data) = Len(at)
        /\ Len(data) <= Len(matches)
        /\ \A n \in 1 .. Len(data) :
             /\ calls[at[n]].id = matches[at[n]]
             /\ data[n].champion = src[n]["championName"]
             /\ data[n].role = src[n]["teamPosition"]
             /\ data[n].win = src[n]["win"]
             /\ data[n].kills = src[n]["kills"]
             /\ data[n].deaths = src[n]["deaths"]
             /\ data[n].assists = src[n]["assists"]
             /\ data[n].duration = Frac(calls[at[n]].ret["info"]["gameDuration"], 60)
        /\ Returned => df = data

\* a returned dataset of two different rows, in the order of their matches
C19_Witness ==
    /\ pc = "encode"
    /\ matches = <<2, 1>>
    /\ Len(df) = 2
    /\ df[1].champion = "Garen"
    /\ df[2].champion = "Ahri"

\* C20: over one whole analysis run the values sent to the shared progress bar
\* (the checkpoints 0, 0.15, 0.3, 0.45, 0.7, 1.0 of main.py and the per-match
\* fractions of processMatches between them) never decrease, and a run that
\* reaches the presentation has sent 1.0 last.
C20_ProgressNeverGoesBack ==
    /\ \A j \in 1 .. Len(progress_bar) - 1 :
         FracLeq(progress_bar[j].value, progress_bar[j + 1].value)
    /\ pc = "tabs" => FracEq(progress_bar[Len(progress_bar)].value, One)

\* C21: on every dataset on which trainModel succeeds, predictByMostPlayed,
\* called with the forest and the training frame trainModel returned, returns
\* its list: no exception leaves it, the training labels being all wins or all
\* losses included.
C21_PredictionsNeverRaise ==
    /\ exc.at /= "predictByMostPlayed"
    /\ pc = "crashed" => exc.at = "trainModel"

\* supports C21: the call returns its list whenever the training labels hold a
\* win and a loss, and ends in the IndexError of predict_proba(entry)[0][1]
\* whenever they are all equal.
PredictionsRaiseOnOneClass ==
    /\ pc = "predicted" => Range(y_train.values) = {TRUE, FALSE}
    /\ exc.at = "predictByMostPlayed" =>
           /\ exc.type = "IndexError"
           /\ Cardinality(Range(y_train.values)) = 1
           /\ predictions = <<>>

\* the call returned a list on a forest that knows both classes
PredictionsReturned ==
    /\ pc = "predicted"
    /\ Len(predictions) = 4
    /\ Len(model.classes) = 2

\* the columns of the frame x that are indicators of the categorical column c:
\* those named c_<value>
IndicatorColumns(x, c) ==
    {col \in Range(x.columns) : \E v \in Range(Lexicographic) : col = c \o "_" \o v}

\* the indicators of c that the synthetic row e holds at 1
IndicatorsSet(e, x, c) == {col \in IndicatorColumns(x, c) : e.values[col] = One}

\* the values of column c in the rows trainModel put in the training part
TrainedLevels(c) == {df[x_train.index[n]][c] : n \in 1 .. Len(x_train.index)}

\* C22: with the schema being the x_train trainModel returned for the same
\* dataset, every champion and every role of the dataset has its indicator
\* column in the schema (the encoding is made before the split), and every
\* synthetic row predictByMostPlayed builds has exactly one champion indicator
\* and exactly one role indicator at 1, those of its pair: no pair falls back on
\* an all-zero group of indicators.
C22_OneChampionOneRoleIndicator ==
    /\ x_train /= NoFrame =>
           /\ \A champ \in Levels(df, "champion") :
                  "champion_" \o champ \in Range(x_train.columns)
           /\ \A role \in Levels(df, "role") :
                  "role_" \o role \in Range(x_train.columns)
    /\ \A k \in 1 .. Len(entries) :
           /\ Cardinality(IndicatorsSet(entries[k], x_train, "champion")) = 1
           /\ Cardinality(IndicatorsSet(entries[k], x_train, "role")) = 1
           /\ pc = "predicted" =>
                  /\ IndicatorsSet(entries[k], x_train, "champion")
                         = {"champion_" \o predictions[k][1]}
                  /\ \E role \in Levels(df, "role") :
                         /\ RoleName(role) = predictions[k][2]
                         /\ IndicatorsSet(entries[k], x_train, "role") = {"role_" \o role}

\* a returned list of four predictions, one of them for a role that no row of
\* the training part has: its column is in the schema because the rows were
\* encoded before they were split
C22_Witness ==
    /\ pc = "predicted"
    /\ Len(entries) = 4
    /\ Len(predictions) = 4
    /\ \E k \in 1 .. Len(entries) : \E role \in Levels(df, "role") \ TrainedLevels("role") :
           /\ predictions[k][2] = RoleName(role)
           /\ entries[k].values["role_" \o role] = One

====
